---- MODULE Spec2Model ----
(***************************************************************************)
(* i3 window manager, src/main.c: bootstrap (main), the libev reactor with *)
(* the xcb drain source (xcb_prepare_cb, main_set_x11_cb), the signal      *)
(* coordinator (setup_term_handlers, handle_core_signal), the exit path    *)
(* (i3_exit) and the in-place restart hand-over of descriptors.            *)
(*                                                                         *)
(* One process is modelled through its successive images: `gen' counts the *)
(* exec()s.  The environment (X server, command line, process environment, *)
(* descriptor table, files) is part of the state.                          *)
(***************************************************************************)
EXTENDS Integers, Sequences, FiniteSets, TLC

\* ------------------------------------------------------------------ bounds
\* Highest descriptor number the process may hold (stand-in for RLIMIT_NOFILE).
MaxFd == 7
\* X events the server sends to one process image.
MaxEvents == 2
\* In-place restarts of the process.
MaxRestarts == 1
\* Readiness notifications of IPC sockets served by one process image.
MaxIpc == 2
\* The same, where restarts are followed.
MaxIpcRestart == 3
\* Descriptors passed by socket activation.
MaxActivation == 2
\* Windows that exist under the root when the window manager starts.
MaxWindows == 2
\* Arguments on the command line.
MaxArgs == 2

\* --------------------------------------------------------- program constants
\* sd-daemon.h: first descriptor passed by socket activation.
SD_LISTEN_FDS_START == 3

NULL == "NULL"

\* Signals whose default action is "Term" (signal(7)), as far as the program
\* and its specification name them, and those whose default action is "Core".
TermSignals == {"SIGHUP", "SIGINT", "SIGALRM", "SIGTERM", "SIGUSR1", "SIGUSR2"}
CoreSignals == {"SIGQUIT", "SIGILL", "SIGABRT", "SIGFPE", "SIGSEGV"}
Signals == TermSignals \cup CoreSignals

\* X event kinds: response_type 0 is an error; the others are event types
\* (XCB_MAP_REQUEST, a ButtonPress that starts the modal drag_pointer(), an
\* UnmapNotify standing for every other event).
XCB_ERROR == 0
XCB_MAP_REQUEST == 20
XCB_BUTTON_PRESS == 4
XCB_UNMAP_NOTIFY == 18
AllEventKinds == {XCB_ERROR, XCB_MAP_REQUEST, XCB_BUTTON_PRESS, XCB_UNMAP_NOTIFY}

\* The response_type of an event a client generated with SendEvent: the
\* server sets the highest bit.
Generated(type) == type + 128

\* No event is taken for an error.
IsError_never(event) == FALSE

\* event->response_type == 0: the event is an X11 error.
IsError(event) == event.response_type = XCB_ERROR

\* The bit is compared as it came.
StripGenerated_kept(response_type) == response_type

\* response_type & 0x7F
StripGenerated(response_type) == response_type % 128

Fds == 0..MaxFd
Windows == 1..MaxWindows
Closed == [kind |-> "closed", cloexec |-> FALSE]

VARIABLES
    \* --- environment of the process
    server,         \* what the X server answers
    argv,           \* command line of the current image (start_argv)
    environ,        \* process environment: I3SOCK, _I3_RESTART_FD, LISTEN_FDS
    files,          \* shm log object, layout snapshots and their directories, IPC socket path
    fdt,            \* descriptor table: fd -> [kind, cloexec]
    \* --- control
    pc,             \* position of the single control flow
    gen,            \* number of exec()s so far
    \* --- main()'s locals and the globals of main.c
    opts,           \* autostart, layout_path, delete_layout_path, disable_signalhandler, only_check_config
    caps,           \* root_depth, visual_type, colormap, xkb_supported, shape_supported
    ipc_socket_path,\* config.ipc_socket_path
    tree,           \* history: the calls of this image that restore, build and fill the tree
    listen_fds,
    restart_confirms, \* restart confirmations this image has sent
    started,        \* history: the applications this image has started, in order
    \* --- protocol connection
    sock,           \* events in the OS socket buffer of the X connection
    queue,          \* events in xcb's internal queue
    handled,        \* history: <<event, how>> in the order the process consumed them
    nsent,          \* events the server has sent to this image
    flushed,        \* TRUE when the outgoing queue was flushed and nothing was written since
    grabbed,        \* server grab held
    has_error,      \* xcb_connection_has_error(conn): a read hit the end of the stream
    \* --- reactor
    sources,        \* started ev_io watchers: [fd, cb]
    xcb_prepare,    \* "unset" | "active" | "stopped"
    pending,        \* libev's pending watchers, invoked from the end
    modal,          \* "none", or the context drag_pointer() returns to
    phase,          \* ev_run: "prepare" before the blocking wait, "io" after it
    nipc,           \* IPC readiness notifications served by this image
    owed,           \* history: events left unconsumed when the drain source was re-enabled
    inherited,      \* history: the ChannelSet at the last exec()
    \* --- signals and exit
    sigdisp,        \* signal -> "default" | "ev_signal" | "handle_core_signal" | "sighandler"
    signal_watchers,\* the ev_signal watchers started, in table order
    sigpending,     \* signals caught by libev, not yet delivered to their watcher
    loop_refs,      \* libev's activecnt
    atexit_i3_exit, \* atexit(i3_exit) registered
    done            \* how the process ended; "running" while it has not

envVars == <<server, argv, environ, files, fdt>>
ctlVars == <<pc, gen>>
mainVars == <<opts, caps, ipc_socket_path, tree, listen_fds, restart_confirms, started>>
connVars == <<sock, queue, handled, nsent, flushed, grabbed, has_error>>
loopVars == <<sources, xcb_prepare, pending, modal, phase, nipc, owed, inherited>>
sigVars == <<sigdisp, signal_watchers, sigpending, loop_refs, atexit_i3_exit, done>>
vars == <<envVars, ctlVars, mainVars, connVars, loopVars, sigVars>>

\* ------------------------------------------------------------------ helpers
Last(s) == s[Len(s)]
Front(s) == SubSeq(s, 1, Len(s) - 1)
Range(s) == {s[i] : i \in 1..Len(s)}
Min(S) == CHOOSE x \in S : \A y \in S : x <= y

IsOpen(t, fd) == fd \in Fds /\ t[fd].kind # "closed"
FreeFds(t) == {fd \in Fds : fd >= 3 /\ t[fd].kind = "closed"}
\* socket()/accept()/xcb_connect() return the lowest free descriptor.
LowestFree(t) == Min(FreeFds(t))

Running == [how |-> "running", sig |-> NULL, status |-> NULL, cause |-> NULL,
            cleanup |-> FALSE, at |-> NULL]

\* Layout snapshot files the command line or a restart can name.
UserLayout == "user.json"
RestartLayout == "restart.json"
Paths == {UserLayout, RestartLayout}

\* ------------------------------------------------------------- command line
Opt(o, a) == [o |-> o, a |-> a]

InitOpts == [autostart |-> TRUE, layout_path |-> NULL, delete_layout_path |-> FALSE,
             disable_signalhandler |-> FALSE, only_check_config |-> FALSE,
             extra_args |-> FALSE, exit |-> NULL]

\* -L leaves the delete-after-use flag as it is.
getopt_case_Lkeeps(st, t) ==
    CASE t.o = "a" -> [st EXCEPT !.autostart = FALSE]
      [] t.o = "L" -> [st EXCEPT !.layout_path = t.a]
      [] t.o = "C" -> [st EXCEPT !.only_check_config = TRUE]
      [] t.o = "v" -> [st EXCEPT !.exit = "version"]
      [] t.o = "m" -> [st EXCEPT !.exit = "moreversion"]
      [] t.o = "disable-signalhandler" -> [st EXCEPT !.disable_signalhandler = TRUE]
      [] t.o = "get-socketpath" -> [st EXCEPT !.exit = "get-socketpath"]
      [] t.o = "restart" -> [st EXCEPT !.layout_path = t.a, !.delete_layout_path = TRUE]
      [] t.o = "word" -> [st EXCEPT !.extra_args = TRUE]
      [] OTHER -> [st EXCEPT !.exit = "usage"]

\* One iteration of the getopt_long() loop of main(): the switch on one option.
getopt_case(st, t) ==
    CASE t.o = "a" -> [st EXCEPT !.autostart = FALSE]
      [] t.o = "L" -> [st EXCEPT !.layout_path = t.a, !.delete_layout_path = FALSE]
      [] t.o = "C" -> [st EXCEPT !.only_check_config = TRUE]
      [] t.o = "v" -> [st EXCEPT !.exit = "version"]
      [] t.o = "m" -> [st EXCEPT !.exit = "moreversion"]
      [] t.o = "disable-signalhandler" -> [st EXCEPT !.disable_signalhandler = TRUE]
      [] t.o = "get-socketpath" -> [st EXCEPT !.exit = "get-socketpath"]
      [] t.o = "restart" -> [st EXCEPT !.layout_path = t.a, !.delete_layout_path = TRUE]
      [] t.o = "word" -> [st EXCEPT !.extra_args = TRUE]
      [] OTHER -> [st EXCEPT !.exit = "usage"]

\* The getopt_long() loop: options in command-line order; exit() inside the
\* switch ends the loop; non-option words are left for after the loop.
RECURSIVE getopt_loop(_, _)
getopt_loop(args, st) ==
    IF args = <<>> \/ st.exit # NULL THEN st
    ELSE getopt_loop(Tail(args), getopt_case(st, Head(args)))

\* ------------------------------------------------------------- environment
InitCaps == [root_depth |-> NULL, visual_type |-> NULL, colormap |-> NULL,
             xkb_supported |-> TRUE, shape_supported |-> TRUE]

\* The SHAPE extension as the server reports it: present or not, whether the
\* version query is answered, and the minor version of the answer.
ShapeAnswers == {[present |-> FALSE, reply |-> FALSE, minor |-> 0],
                 [present |-> TRUE, reply |-> FALSE, minor |-> 0],
                 [present |-> TRUE, reply |-> TRUE, minor |-> 0],
                 [present |-> TRUE, reply |-> TRUE, minor |-> 1],
                 [present |-> TRUE, reply |-> TRUE, minor |-> 2]}

ServerNominal == [connect_ok |-> TRUE, visual32 |-> TRUE, colormap_ok |-> TRUE,
                  other_wm |-> FALSE, geometry_ok |-> TRUE, xkb |-> TRUE,
                  shape |-> [present |-> TRUE, reply |-> TRUE, minor |-> 1],
                  kinds |-> AllEventKinds, windows |-> {1}]

\* A layout snapshot is absent ("none"), unreadable as a tree ("malformed") or
\* "valid"; its directory holds nothing else ("empty"), holds other entries
\* ("others") or has been removed ("removed").
LayoutStates == {"none", "malformed", "valid"}
NoLayouts == [p \in Paths |-> "none"]
EmptyDirs == [p \in Paths |-> "empty"]
\* The socket paths of the model: the one the configuration may set, the ones
\* $I3SOCK may hold (the second is the empty string) and the one
\* get_process_filename("ipc-socket") makes from the process id.
SocketPaths == {"config-path", "env-path", "", "pid-default"}
\* `bindable' are the paths a socket can be bound to, `elog' the error messages
\* written so far.
FilesNominal == [shmlog |-> FALSE, layout |-> NoLayouts, layoutdir |-> EmptyDirs,
                 socket |-> FALSE, config_ipc_path |-> NULL,
                 bindable |-> SocketPaths \ {""}, elog |-> {}]

\* The value of _I3_RESTART_FD: absent, not a number, or a long whose low 32
\* bits (as a signed int) are `lo' and whose remaining high part is `hi'.
EnvAbsent == [text |-> "absent", hi |-> 0, lo |-> 0]
EnvGarbage == [text |-> "garbage", hi |-> 0, lo |-> 0]
EnvNumber(hi, lo) == [text |-> "number", hi |-> hi, lo |-> lo]

EnvNominal == [I3SOCK |-> NULL, RESTART_FD |-> EnvAbsent, LISTEN_FDS |-> 0, shm |-> TRUE]

\* The descriptor table a supervisor hands over: stdio, and the socket-activation
\* descriptors `act', each a listening socket with close-on-exec set.
FdtWith(act) == [fd \in Fds |->
                    IF fd < 3 THEN [kind |-> "stdio", cloexec |-> FALSE]
                    ELSE IF fd \in act THEN [kind |-> "listen", cloexec |-> TRUE]
                    ELSE Closed]

\* The same with client connections the image inherits: they are open and
\* survive exec().
FdtInheriting(act, clients) ==
    [fd \in Fds |-> IF fd \in clients THEN [kind |-> "client", cloexec |-> FALSE]
                    ELSE FdtWith(act)[fd]]

\* The state of a fresh process image: the initial values of main.c's globals
\* and of main()'s locals, a new libev loop, no X connection.
FreshImage ==
    /\ opts' = InitOpts
    /\ caps' = InitCaps
    /\ ipc_socket_path' = NULL
    /\ tree' = <<>>
    /\ listen_fds' = 0
    /\ restart_confirms' = 0
    /\ started' = <<>>
    /\ sock' = <<>>
    /\ queue' = <<>>
    /\ handled' = <<>>
    /\ nsent' = 0
    /\ flushed' = TRUE
    /\ grabbed' = FALSE
    /\ has_error' = FALSE
    /\ sources' = {}
    /\ xcb_prepare' = "unset"
    /\ pending' = <<>>
    /\ modal' = "none"
    /\ phase' = "prepare"
    /\ nipc' = 0
    /\ owed' = {}
    /\ signal_watchers' = <<>>
    /\ sigpending' = {}
    /\ loop_refs' = 0
    /\ atexit_i3_exit' = FALSE

InitWorld(S, A, E, F, T) ==
    /\ server \in S
    /\ argv \in A
    /\ environ \in E
    /\ files \in F
    /\ fdt \in T
    /\ pc = "start"
    /\ gen = 0
    /\ opts = InitOpts
    /\ caps = InitCaps
    /\ ipc_socket_path = NULL
    /\ tree = <<>>
    /\ listen_fds = 0
    /\ restart_confirms = 0
    /\ started = <<>>
    /\ sock = <<>>
    /\ queue = <<>>
    /\ handled = <<>>
    /\ nsent = 0
    /\ flushed = TRUE
    /\ grabbed = FALSE
    /\ has_error = FALSE
    /\ sources = {}
    /\ xcb_prepare = "unset"
    /\ pending = <<>>
    /\ modal = "none"
    /\ phase = "prepare"
    /\ nipc = 0
    /\ owed = {}
    /\ inherited = {}
    /\ sigdisp = [s \in Signals |-> "default"]
    /\ signal_watchers = <<>>
    /\ sigpending = {}
    /\ loop_refs = 0
    /\ atexit_i3_exit = FALSE
    /\ done = Running

\* ------------------------------------------------------------ process exit
AllClosed == [fd \in Fds |-> Closed]

\* The process is gone: its memory and descriptors are released.  What is left
\* is the environment and the record `d' of how it ended.
Gone(d, f) ==
    /\ done' = d
    /\ files' = f
    /\ fdt' = AllClosed
    /\ pc' = "exited"
    /\ FreshImage
    /\ sigdisp' = [s \in Signals |-> "default"]
    /\ UNCHANGED <<server, argv, environ, gen, inherited>>

\* i3_exit(): shm_unlink(shmlogname) when shm logging is on, ipc_shutdown(),
\* unlink(config.ipc_socket_path), xcb_disconnect(), ev_loop_destroy().
i3_exit(f) == [f EXCEPT !.shmlog = IF environ.shm THEN FALSE ELSE @,
                        !.socket = FALSE]

\* exit(status), or return from main(): the atexit handlers run (i3_exit when
\* it was registered), then the process is gone.
Exit(status, cause) ==
    Gone([how |-> "exit", sig |-> NULL, status |-> status, cause |-> cause,
          cleanup |-> atexit_i3_exit, at |-> pc],
         IF atexit_i3_exit THEN i3_exit(files) ELSE files)

ExitWith(status, cause, f) ==
    Gone([how |-> "exit", sig |-> NULL, status |-> status, cause |-> cause,
          cleanup |-> atexit_i3_exit, at |-> pc],
         IF atexit_i3_exit THEN i3_exit(f) ELSE f)

\* --------------------------------------------------------------- bootstrap
Alive == done.how = "running"

\* The exit statuses of a one-shot path: the version queries succeed;
\* --get-socketpath, -C and the forwarded command succeed or fail with what
\* they find (the root property, the configuration file, the running i3).
OneShotStatus(cause) ==
    IF cause \in {"version", "moreversion"} THEN {"0"}
    ELSE IF cause = "usage" THEN {"1"}
    ELSE {"0", "1"}

\* -C is not looked at after the option loop.
ParseArgs_nocheck ==
    /\ Alive /\ pc = "start"
    /\ LET st == getopt_loop(argv, InitOpts)
           f == [files EXCEPT !.shmlog = IF environ.shm THEN TRUE ELSE @]
       IN  IF st.exit # NULL
           THEN \E status \in OneShotStatus(st.exit) : ExitWith(status, st.exit, f)
           ELSE IF st.extra_args
           THEN \E status \in OneShotStatus("send-command") :
                   ExitWith(status, "send-command", f)
           ELSE /\ opts' = st
                /\ files' = f
                /\ pc' = "connect"
                /\ UNCHANGED <<server, argv, environ, fdt, gen, caps, ipc_socket_path,
                               tree, listen_fds, restart_confirms, connVars,
                               loopVars, sigVars, started>>

\* main(), up to "i3 starting": init_logging() opens the shm log when shm
\* logging is on; the option loop; the one-shot paths exit here.
ParseArgs ==
    /\ Alive /\ pc = "start"
    /\ LET st == getopt_loop(argv, InitOpts)
           f == [files EXCEPT !.shmlog = IF environ.shm THEN TRUE ELSE @]
       IN  IF st.exit # NULL
           THEN \E status \in OneShotStatus(st.exit) : ExitWith(status, st.exit, f)
           ELSE IF st.only_check_config
           THEN \E status \in OneShotStatus("check-config") :
                   ExitWith(status, "check-config", f)
           ELSE IF st.extra_args
           THEN \E status \in OneShotStatus("send-command") :
                   ExitWith(status, "send-command", f)
           ELSE /\ opts' = st
                /\ files' = f
                /\ pc' = "connect"
                /\ UNCHANGED <<server, argv, environ, fdt, gen, caps, ipc_socket_path,
                               tree, listen_fds, restart_confirms, connVars,
                               loopVars, sigVars, started>>

\* xcb_connect(): a socket on the lowest free descriptor, close-on-exec.
Connect ==
    /\ Alive /\ pc = "connect"
    /\ IF ~server.connect_ok \/ FreeFds(fdt) = {}
       THEN Exit("1", "no-display")
       ELSE /\ fdt' = [fdt EXCEPT ![LowestFree(fdt)] = [kind |-> "x11", cloexec |-> TRUE]]
            /\ pc' = "visual"
            /\ UNCHANGED <<server, argv, environ, files, gen, mainVars, connVars,
                           loopVars, sigVars>>

\* Colour negotiation: the 32-bit visual when the server has one, with a new
\* colormap; else the root's depth, visual and default colormap.
NegotiateVisual ==
    /\ Alive /\ pc = "visual"
    /\ IF server.visual32
       THEN IF server.colormap_ok
            THEN /\ caps' = [caps EXCEPT !.root_depth = 32, !.visual_type = "argb32",
                                         !.colormap = "created"]
                 /\ pc' = "config"
                 /\ UNCHANGED <<envVars, gen, opts, ipc_socket_path, tree, listen_fds,
                                restart_confirms, connVars, loopVars, sigVars, started>>
            ELSE Exit("1", "colormap")
       ELSE /\ caps' = [caps EXCEPT !.root_depth = 24, !.visual_type = "root",
                                    !.colormap = "default"]
            /\ pc' = "config"
            /\ UNCHANGED <<envVars, gen, opts, ipc_socket_path, tree, listen_fds,
                           restart_confirms, connVars, loopVars, sigVars, started>>

\* $I3SOCK is looked at first.
ResolveSocketPath_envfirst(configured, i3sock) ==
    IF i3sock # NULL THEN i3sock
    ELSE IF configured # NULL THEN configured
    ELSE "pid-default"

\* The IPC socket path: the configured one, else $I3SOCK, else a name made
\* from the process id.
ResolveSocketPath(configured, i3sock) ==
    IF configured # NULL THEN configured
    ELSE IF i3sock # NULL THEN i3sock
    ELSE "pid-default"

LoadConfiguration ==
    /\ Alive /\ pc = "config"
    /\ ipc_socket_path' = ResolveSocketPath(files.config_ipc_path, environ.I3SOCK)
    /\ pc' = "claim_root"
    /\ UNCHANGED <<envVars, gen, opts, caps, tree, listen_fds, restart_confirms,
                   connVars, loopVars, sigVars, started>>

\* The answer to the checked request is not looked at.
ClaimRoot_unchecked ==
    /\ Alive /\ pc = "claim_root"
    /\ pc' = "ext"
    /\ UNCHANGED <<envVars, gen, mainVars, connVars, loopVars, sigVars>>

\* Selecting the root event mask fails when another window manager runs.
ClaimRoot ==
    /\ Alive /\ pc = "claim_root"
    /\ IF server.other_wm THEN Exit("1", "other-wm")
       ELSE IF ~server.geometry_ok THEN Exit("1", "no-geometry")
       ELSE /\ pc' = "ext"
            /\ UNCHANGED <<envVars, gen, mainVars, connVars, loopVars, sigVars>>

\* The XKB and SHAPE queries set the capability flags.
XkbSupported(srv) == srv.xkb
\* The extension's presence alone decides, whatever its version.
ShapeSupported_anyversion(srv) == srv.shape.present

ShapeSupported(srv) ==
    IF srv.shape.present THEN srv.shape.reply /\ srv.shape.minor >= 1 ELSE FALSE

NegotiateExtensions ==
    /\ Alive /\ pc = "ext"
    /\ caps' = [caps EXCEPT !.xkb_supported = XkbSupported(server),
                            !.shape_supported = ShapeSupported(server)]
    /\ pc' = "tree"
    /\ UNCHANGED <<envVars, gen, opts, ipc_socket_path, tree, listen_fds,
                   restart_confirms, connVars, loopVars, sigVars, started>>

\* An entry of the tree history: the call and the window it is about, 0 when
\* it is about none.
TreeOp(op, window) == [op |-> op, window |-> window]
Op(op) == TreeOp(op, 0)

\* tree_restore(): true when the snapshot could be read as a tree.
tree_restore(f, p) == f.layout[p] = "valid"

\* The tree is built from scratch whatever tree_restore() answered.
NeedsTreeInit_always(f, p) == TRUE

\* No tree is built when none was restored.
NeedsTreeInit_never(f, p) == FALSE

\* needs_tree_init: true without a layout path, else !tree_restore().
NeedsTreeInit(f, p) == IF p # NULL THEN ~tree_restore(f, p) ELSE TRUE

\* The snapshot is removed only when it was restored from.
DeletesLayout_whenRestored(f, p, delete_layout_path) ==
    p # NULL /\ delete_layout_path /\ tree_restore(f, p)

\* The removal is inside "if (layout_path != NULL)" and under
\* "if (delete_layout_path)", after tree_restore() whatever it answered.
DeletesLayout(f, p, delete_layout_path) == p # NULL /\ delete_layout_path

\* unlink(layout_path), then rmdir(dirname(layout_path)), which fails on a
\* directory that holds other entries.
UnlinkLayout(f, p) ==
    [f EXCEPT !.layout[p] = "none",
              !.layoutdir[p] = IF @ = "empty" THEN "removed" ELSE @]

\* tree_restore() from the layout path when one was given, then the removal
\* of a snapshot marked delete-after-use; tree_init() when nothing was
\* restored.
RestoreTree ==
    /\ Alive /\ pc = "tree"
    /\ LET p == opts.layout_path
           needs_tree_init == NeedsTreeInit(files, p)
           deletes == DeletesLayout(files, p, opts.delete_layout_path)
       IN  /\ tree' = (IF p # NULL
                       THEN <<IF tree_restore(files, p) THEN Op("tree_restore_ok")
                              ELSE Op("tree_restore_failed")>>
                       ELSE <<>>)
                      \o (IF deletes THEN <<Op("unlink"), Op("rmdir")>> ELSE <<>>)
                      \o (IF needs_tree_init THEN <<Op("tree_init")>> ELSE <<>>)
           /\ files' = IF deletes THEN UnlinkLayout(files, p) ELSE files
    /\ pc' = "ipc"
    /\ UNCHANGED <<server, argv, environ, fdt, gen, opts, caps, ipc_socket_path,
                   listen_fds, restart_confirms, connVars, loopVars, sigVars, started>>

\* Watchers of the loop: ev_io sources carry a descriptor, ev_signal watchers a
\* signal, the ev_prepare watcher neither.
Watcher(fd, cb, sig) == [fd |-> fd, cb |-> cb, sig |-> sig]
Source(fd, cb) == Watcher(fd, cb, NULL)
PrepareWatcher == Watcher(-1, "xcb_prepare_cb", NULL)

\* ipc_create_socket(): a listening socket on the lowest free descriptor, bound
\* to the path; -1 when no descriptor is left or the path cannot be bound.
ipc_create_socket(t, f, path) ==
    IF FreeFds(t) = {} \/ path \notin f.bindable THEN -1 ELSE LowestFree(t)

\* The watcher is started whatever ipc_create_socket() returned.
IpcSource_unchecked(ipc_socket) == {Source(ipc_socket, "ipc_new_client")}

\* The watcher main() starts for the socket: none when there is no socket.
IpcSource(ipc_socket) ==
    IF ipc_socket = -1 THEN {} ELSE {Source(ipc_socket, "ipc_new_client")}

\* The socket is created and its watcher started, or the failure is logged;
\* bootstrap goes on either way.
CreateIpcSocket ==
    /\ Alive /\ pc = "ipc"
    /\ LET ipc_socket == ipc_create_socket(fdt, files, ipc_socket_path)
       IN  /\ sources' = sources \cup IpcSource(ipc_socket)
           /\ loop_refs' = loop_refs + Cardinality(IpcSource(ipc_socket))
           /\ IF ipc_socket = -1
              THEN /\ files' = [files EXCEPT !.elog = @ \cup {"IPC disabled"}]
                   /\ UNCHANGED fdt
              ELSE /\ fdt' = [fdt EXCEPT ![ipc_socket] =
                                            [kind |-> "listen", cloexec |-> TRUE]]
                   /\ files' = [files EXCEPT !.socket = TRUE]
    /\ pc' = "activation"
    /\ UNCHANGED <<server, argv, environ, gen, mainVars, connVars, xcb_prepare, pending,
                   modal, phase, nipc, owed, inherited, sigdisp, signal_watchers,
                   sigpending, atexit_i3_exit, done>>

\* The descriptor after the last one is taken too.
ActivationFds_inclusive(n) ==
    {fd \in Fds : fd >= SD_LISTEN_FDS_START /\ fd <= SD_LISTEN_FDS_START + n}

\* The descriptors socket activation announces.
ActivationFds(n) == {fd \in Fds : fd >= SD_LISTEN_FDS_START /\ fd < SD_LISTEN_FDS_START + n}

\* sd_listen_fds(): sets FD_CLOEXEC on every descriptor it passes.
sd_listen_fds(t, n) ==
    [fd \in Fds |-> IF fd \in ActivationFds(n) /\ IsOpen(t, fd)
                    THEN [t[fd] EXCEPT !.cloexec = TRUE] ELSE t[fd]]

\* fcntl(fd, F_SETFD, flags & ~FD_CLOEXEC); it fails on a descriptor that is
\* not open, and the failure is only logged.
\* The attribute is left as sd_listen_fds() set it.
DisableCloexec_kept(t, fd) == t

DisableCloexec(t, fd) ==
    IF IsOpen(t, fd) THEN [t EXCEPT ![fd].cloexec = FALSE] ELSE t

RECURSIVE DisableCloexecAll(_, _)
DisableCloexecAll(t, S) ==
    IF S = {} THEN t
    ELSE LET fd == Min(S) IN DisableCloexecAll(DisableCloexec(t, fd), S \ {fd})

\* What the socket-activation step writes to the error log: the failure of
\* sd_listen_fds(), and the failure to clear close-on-exec on a descriptor.
ActivationErrors(t, n) ==
    (IF n < 0 THEN {"Error in sd_listen_fds"} ELSE {})
    \cup (IF \E fd \in ActivationFds(n) : ~IsOpen(t, fd)
          THEN {"Could not disable FD_CLOEXEC"} ELSE {})

\* Socket activation: sd_listen_fds() gives the count (negative on error);
\* every announced descriptor gets close-on-exec cleared and is registered as
\* a listening source, also when clearing failed.
SocketActivation ==
    /\ Alive /\ pc = "activation"
    /\ listen_fds' = environ.LISTEN_FDS
    /\ LET act == ActivationFds(environ.LISTEN_FDS)
       IN  /\ fdt' = DisableCloexecAll(sd_listen_fds(fdt, environ.LISTEN_FDS), act)
           /\ sources' = sources \cup {Source(fd, "ipc_new_client") : fd \in act}
           /\ loop_refs' = loop_refs + Cardinality(act)
    /\ files' = [files EXCEPT !.elog = @ \cup ActivationErrors(fdt, environ.LISTEN_FDS)]
    /\ pc' = "restart_fd"
    /\ UNCHANGED <<server, argv, environ, gen, opts, caps, ipc_socket_path, tree,
                   restart_confirms, connVars, xcb_prepare, pending, modal, phase, nipc,
                   owed, inherited, sigdisp, signal_watchers, sigpending,
                   atexit_i3_exit, done, started>>

\* An absent variable reads as descriptor 0.
parse_restart_fd_absent0(v) ==
    IF v.text = "absent" THEN 0
    ELSE IF v.text = "garbage" THEN -1
    ELSE v.lo

\* The value parse_long() left is returned although it rejected the text.
parse_restart_fd_unchecked(v) ==
    IF v.text = "absent" THEN -1
    ELSE v.lo

\* parse_restart_fd(): -1 when the variable is absent or parse_long() rejects
\* it; else the long converted to int, which keeps the low 32 bits.
parse_restart_fd(v) ==
    IF v.text = "absent" THEN -1
    ELSE IF v.text = "garbage" THEN -1
    ELSE v.lo

\* The restart-continuation descriptor becomes a client; the restart is
\* confirmed over it.
ServeRestartFd ==
    /\ Alive /\ pc = "restart_fd"
    /\ LET restart_fd == parse_restart_fd(environ.RESTART_FD)
       IN  IF restart_fd # -1
           THEN /\ sources' = sources \cup {Source(restart_fd, "ipc_client")}
                /\ loop_refs' = loop_refs + 1
                /\ restart_confirms' = restart_confirms + 1
           ELSE UNCHANGED <<sources, loop_refs, restart_confirms>>
    /\ pc' = "arm"
    /\ UNCHANGED <<envVars, gen, opts, caps, ipc_socket_path, tree, listen_fds, connVars,
                   xcb_prepare, pending, modal, phase, nipc, owed, inherited, sigdisp,
                   signal_watchers, sigpending, atexit_i3_exit, done, started>>

XFd(t) == CHOOSE fd \in Fds : t[fd].kind = "x11"

\* The X descriptor's io watcher and the prepare watcher are started.
ArmReactor ==
    /\ Alive /\ pc = "arm"
    /\ sources' = sources \cup {Source(XFd(fdt), "xcb_got_event")}
    /\ xcb_prepare' = "active"
    /\ loop_refs' = loop_refs + 2
    /\ flushed' = TRUE
    /\ pc' = "grab"
    /\ UNCHANGED <<envVars, gen, mainVars, sock, queue, handled, nsent, grabbed,
                   has_error, pending, modal, phase, nipc, owed, inherited, sigdisp,
                   signal_watchers, sigpending, atexit_i3_exit, done>>

\* Waiting for a reply reads the socket: the events that arrived before the
\* reply are left in xcb's queue, and the descriptor is no longer readable.
ReadWhileWaiting(s) == [i \in 1..Len(s) |-> [s[i] EXCEPT !.buffered = TRUE]]

\* The round trip is made without the grab.
GrabServer_nograb ==
    /\ Alive /\ pc = "grab"
    /\ queue' = queue \o ReadWhileWaiting(sock)
    /\ sock' = <<>>
    /\ flushed' = TRUE
    /\ pc' = "recon_drain"
    /\ UNCHANGED <<envVars, gen, mainVars, handled, nsent, grabbed, has_error, loopVars,
                   sigVars>>

\* xcb_grab_server(); xcb_aux_sync(): the round trip reads everything the
\* server has sent into xcb's queue.
GrabServer ==
    /\ Alive /\ pc = "grab"
    /\ grabbed' = TRUE
    /\ queue' = queue \o ReadWhileWaiting(sock)
    /\ sock' = <<>>
    /\ flushed' = TRUE
    /\ pc' = "recon_drain"
    /\ UNCHANGED <<envVars, gen, mainVars, handled, nsent, has_error, loopVars, sigVars>>

Handled(e, how) ==
    [id |-> e.id, response_type |-> e.response_type, window |-> e.window,
     buffered |-> e.buffered, how |-> how]

\* manage_window(): a window that has a container already is left alone.
manage_window(t, window) ==
    IF \E i \in 1..Len(t) : t[i] = TreeOp("manage_window", window) THEN t
    ELSE Append(t, TreeOp("manage_window", window))

\* handle_event(): a MapRequest manages its window; the other events do not
\* touch the set of managed windows.
handle_event(t, type, event) ==
    IF type = XCB_MAP_REQUEST THEN manage_window(t, event.window) ELSE t

\* manage_existing_windows(): every child of the root is managed.
RECURSIVE manage_existing_windows(_, _)
manage_existing_windows(t, children) ==
    IF children = {} THEN t
    ELSE LET window == Min(children)
         IN  manage_existing_windows(manage_window(t, window), children \ {window})

\* The enumeration is left out.
ManageExisting_skipped(t) == t

\* manage_existing_windows(root), called once the drain has emptied the queue.
ManageExisting(t) == manage_existing_windows(t, server.windows)

\* The drain under the grab: MapRequests are handled, every other event and
\* every error is dropped; with the queue empty, manage_existing_windows() and
\* xcb_ungrab_server().
ReconcileDrain ==
    /\ Alive /\ pc = "recon_drain"
    /\ LET q == queue \o sock
       IN  IF q = <<>>
           THEN /\ tree' = ManageExisting(tree)
                /\ grabbed' = FALSE
                /\ pc' = "signals"
                /\ UNCHANGED <<queue, sock, handled>>
           ELSE LET event == Head(q)
                    type == StripGenerated(event.response_type)
                IN  /\ queue' = Tail(q)
                    /\ sock' = <<>>
                    /\ IF ~IsError(event) /\ type = XCB_MAP_REQUEST
                       THEN /\ handled' = Append(handled, Handled(event, "handle_event"))
                            /\ tree' = handle_event(tree, type, event)
                       ELSE /\ handled' = Append(handled, Handled(event, "dropped"))
                            /\ UNCHANGED tree
                    /\ UNCHANGED <<grabbed, pc>>
    /\ UNCHANGED <<envVars, gen, opts, caps, ipc_socket_path, listen_fds,
                   restart_confirms, started, nsent, flushed, has_error, loopVars,
                   sigVars>>

\* setup_signal_handler(), or with --disable-signalhandler the sigaction() of
\* handle_core_signal for the signals whose default action is "Core".
SetupSignalHandler ==
    /\ Alive /\ pc = "signals"
    /\ sigdisp' = [s \in Signals |->
                      IF s \in CoreSignals
                      THEN (IF opts.disable_signalhandler THEN "handle_core_signal"
                            ELSE "sighandler")
                      ELSE sigdisp[s]]
    /\ pc' = "term_handlers"
    /\ UNCHANGED <<envVars, gen, mainVars, connVars, loopVars, signal_watchers,
                   sigpending, loop_refs, atexit_i3_exit, done>>

\* The signal numbers of the six ev_signal_init() calls, in table order.
TermHandlerTable == <<"SIGHUP", "SIGINT", "SIGALRM", "SIGTERM", "SIGUSR1", "SIGUSR1">>

\* The reference is kept.
ev_unref_missing(refs) == refs

\* ev_unref(): one reference of the loop is dropped.
ev_unref(refs) == refs - 1

\* The for loop of setup_term_handlers() over the first n watchers:
\* ev_signal_start() takes a reference of the loop for the watcher it starts,
\* ev_unref() follows it.
RECURSIVE StartTermWatchers(_, _)
StartTermWatchers(refs, n) ==
    IF n = 0 THEN refs ELSE ev_unref(StartTermWatchers(refs, n - 1) + 1)

\* setup_term_handlers(): each watcher is started and the loop unreferenced.
setup_term_handlers ==
    /\ Alive /\ pc = "term_handlers"
    /\ signal_watchers' = TermHandlerTable
    /\ sigdisp' = [s \in Signals |->
                      IF s \in Range(TermHandlerTable) THEN "ev_signal" ELSE sigdisp[s]]
    /\ loop_refs' = StartTermWatchers(loop_refs, Len(TermHandlerTable))
    /\ pc' = "autostart"
    /\ UNCHANGED <<envVars, gen, mainVars, connVars, loopVars, sigpending,
                   atexit_i3_exit, done>>

\* The exec lines are started even with autostart off.
StartApplications_always(autostart) == <<"exec", "exec_always", "bar">>

\* The applications main() starts, the configuration holding one line of each
\* kind: the exec lines unless autostart is off, the exec_always lines, the
\* bars.
StartApplications(autostart) ==
    (IF autostart THEN <<"exec">> ELSE <<>>) \o <<"exec_always", "bar">>

Autostart ==
    /\ Alive /\ pc = "autostart"
    /\ started' = started \o StartApplications(opts.autostart)
    /\ pc' = "atexit"
    /\ UNCHANGED <<envVars, gen, opts, caps, ipc_socket_path, tree, listen_fds,
                   restart_confirms, connVars, loopVars, sigVars>>

\* atexit(i3_exit), then ev_loop().
RegisterAtexit ==
    /\ Alive /\ pc = "atexit"
    /\ atexit_i3_exit' = TRUE
    /\ pc' = "loop"
    /\ UNCHANGED <<envVars, gen, mainVars, connVars, loopVars, sigdisp, signal_watchers,
                   sigpending, loop_refs, done>>

\* ------------------------------------------------------------ X connection
Connected == pc \notin {"start", "connect", "visual", "config", "claim_root", "exited"}

\* A MapRequest names a window under the root; the window of the other events
\* plays no part.
EventWindows(kind) ==
    IF kind \in {XCB_MAP_REQUEST, Generated(XCB_MAP_REQUEST)} THEN server.windows ELSE {0}

\* The server sends an event: it arrives in the socket buffer.  Under the
\* server grab no other client's request is processed, so nothing is sent.
ServerSend(max, kind) ==
    /\ Alive /\ Connected /\ ~grabbed
    /\ server.connect_ok
    /\ nsent < max
    /\ kind \in server.kinds \cup {Generated(k) : k \in server.kinds \ {XCB_ERROR}}
    /\ \E window \in EventWindows(kind) :
          sock' = Append(sock, [id |-> nsent + 1, response_type |-> kind,
                                window |-> window, buffered |-> FALSE])
    /\ nsent' = nsent + 1
    /\ UNCHANGED <<envVars, ctlVars, mainVars, queue, handled, flushed, grabbed,
                   has_error, loopVars, sigVars>>

\* The X server closes the connection while ev_loop() runs: from then on the
\* descriptor reads end of stream.
ConnectionFails ==
    /\ Alive /\ pc \in {"loop", "invoke", "drain", "wait"}
    /\ server.connect_ok
    /\ server' = [server EXCEPT !.connect_ok = FALSE]
    /\ UNCHANGED <<argv, environ, files, fdt, ctlVars, mainVars, connVars, loopVars,
                   sigVars>>

\* ----------------------------------------------------------------- reactor
\* main_set_x11_cb(): ev_prepare_start() and ev_feed_event() of the prepare
\* watcher, or ev_prepare_stop(), which also clears its pending event.  The
\* result is the watcher's state, the pending list and the loop's count.
\* Re-enabling that only restarts the watcher, without ev_feed_event().
main_set_x11_cb_nofeed(enable) ==
    IF enable
    THEN [xcb_prepare |-> "active",
          pending |-> pending,
          loop_refs |-> IF xcb_prepare = "active" THEN loop_refs ELSE loop_refs + 1]
    ELSE [xcb_prepare |-> "stopped",
          pending |-> SelectSeq(pending, LAMBDA w : w # PrepareWatcher),
          loop_refs |-> IF xcb_prepare = "active" THEN loop_refs - 1 ELSE loop_refs]

\* Disabling drops every pending callback, not only the drain's.
main_set_x11_cb_clearall(enable) ==
    IF enable
    THEN [xcb_prepare |-> "active",
          pending |-> IF PrepareWatcher \in Range(pending) THEN pending
                      ELSE Append(pending, PrepareWatcher),
          loop_refs |-> IF xcb_prepare = "active" THEN loop_refs ELSE loop_refs + 1]
    ELSE [xcb_prepare |-> "stopped",
          pending |-> <<>>,
          loop_refs |-> IF xcb_prepare = "active" THEN loop_refs - 1 ELSE loop_refs]

main_set_x11_cb(enable) ==
    IF enable
    THEN [xcb_prepare |-> "active",
          pending |-> IF PrepareWatcher \in Range(pending) THEN pending
                      ELSE Append(pending, PrepareWatcher),
          loop_refs |-> IF xcb_prepare = "active" THEN loop_refs ELSE loop_refs + 1]
    ELSE [xcb_prepare |-> "stopped",
          pending |-> SelectSeq(pending, LAMBDA w : w # PrepareWatcher),
          loop_refs |-> IF xcb_prepare = "active" THEN loop_refs - 1 ELSE loop_refs]

Ids(q) == {q[i].id : i \in 1..Len(q)}

\* drag_pointer() starts: the drain source is disabled and the modal handler
\* takes over the X events.  `ctx' is where it was called from.
StartDrag(ctx) ==
    LET r == main_set_x11_cb(FALSE)
    IN  /\ xcb_prepare' = r.xcb_prepare
        /\ pending' = r.pending
        /\ loop_refs' = r.loop_refs
        /\ modal' = ctx
        /\ pc' = "modal"

\* One iteration of the while loop of xcb_prepare_cb(): xcb_poll_for_event()
\* reads the socket and returns the first queued event; an error is logged,
\* any other event goes to handle_event() (a ButtonPress may start
\* drag_pointer()); with nothing queued the loop ends, xcb_flush(), return.
\* `again' is the loop: after an event, poll for the next one.
\* On a connection in the error state xcb_poll_for_event() returns NULL, and a
\* read that finds the stream closed by the server puts it in that state;
\* xcb_flush() then writes nothing.  The callback returns all the same.
DrainEvents(again) ==
    /\ Alive /\ pc = "drain"
    /\ LET q == queue \o sock
       IN  IF has_error \/ q = <<>>
           THEN /\ has_error' = (has_error \/ ~server.connect_ok)
                /\ flushed' = ~has_error'
                /\ pc' = "invoke"
                /\ UNCHANGED <<queue, sock, handled, tree, owed, xcb_prepare, pending,
                               modal, loop_refs>>
           ELSE LET event == Head(q)
                    type == StripGenerated(event.response_type)
                    back == IF again THEN "drain" ELSE "invoke"
                IN  /\ queue' = Tail(q)
                    /\ sock' = <<>>
                    /\ owed' = owed \ {event.id}
                    /\ UNCHANGED has_error
                    /\ IF IsError(event)
                       THEN /\ handled' = Append(handled, Handled(event, "logged"))
                            /\ pc' = back
                            /\ UNCHANGED <<tree, flushed, xcb_prepare, pending, modal,
                                           loop_refs>>
                       ELSE /\ handled' = Append(handled, Handled(event, "handle_event"))
                            /\ tree' = handle_event(tree, type, event)
                            /\ flushed' = ~again
                            /\ \E drag \in IF type = XCB_BUTTON_PRESS
                                           THEN BOOLEAN ELSE {FALSE} :
                                  IF drag THEN StartDrag("drain")
                                  ELSE /\ pc' = back
                                       /\ UNCHANGED <<xcb_prepare, pending, modal,
                                                      loop_refs>>
    /\ UNCHANGED <<envVars, gen, opts, caps, ipc_socket_path, listen_fds,
                   restart_confirms, nsent, grabbed, sources, phase, nipc, inherited,
                   sigdisp, signal_watchers, sigpending, atexit_i3_exit, done, started>>

\* A drain that handles one event per invocation: "if" in place of "while".
xcb_prepare_cb_once == DrainEvents(FALSE)

\* A drain that asks with xcb_wait_for_event(): with nothing queued it blocks
\* until an event arrives or the connection fails.
xcb_prepare_cb_wait ==
    /\ queue \o sock # <<>> \/ has_error \/ ~server.connect_ok
    /\ DrainEvents(TRUE)

xcb_prepare_cb == DrainEvents(TRUE)

\* The modal handler of drag_pointer() consumes an event itself.
DragConsume ==
    /\ Alive /\ pc = "modal"
    /\ LET q == queue \o sock
       IN  /\ q # <<>> /\ ~has_error
           /\ queue' = Tail(q)
           /\ sock' = <<>>
           /\ handled' = Append(handled, Handled(Head(q), "modal"))
           /\ owed' = owed \ {Head(q).id}
    /\ UNCHANGED <<envVars, ctlVars, mainVars, nsent, flushed, grabbed, has_error,
                   sources, xcb_prepare, pending, modal, phase, nipc, inherited, sigVars>>

\* drag_pointer() ends, possibly with events left: main_set_x11_cb(true), and
\* control returns to the caller.
DragEnd ==
    /\ Alive /\ pc = "modal"
    /\ LET r == main_set_x11_cb(TRUE)
       IN  /\ xcb_prepare' = r.xcb_prepare
           /\ pending' = r.pending
           /\ loop_refs' = r.loop_refs
    /\ owed' = Ids(queue \o sock)
    /\ pc' = IF modal = "drain" THEN "drain" ELSE "invoke"
    /\ modal' = "none"
    /\ UNCHANGED <<envVars, gen, mainVars, connVars, sources, phase, nipc, inherited,
                   sigdisp, signal_watchers, sigpending, atexit_i3_exit, done>>

\* ev_loop(): one iteration starts by queueing the active prepare watchers.
LoopIteration ==
    /\ Alive /\ pc = "loop"
    /\ pending' = IF xcb_prepare = "active" THEN <<PrepareWatcher>> ELSE <<>>
    /\ phase' = "prepare"
    /\ pc' = "invoke"
    /\ UNCHANGED <<envVars, gen, mainVars, connVars, sources, xcb_prepare, modal, nipc,
                   owed, inherited, sigVars>>

NextPending(cb) == pc = "invoke" /\ pending # <<>> /\ Last(pending).cb = cb

\* The pending prepare watcher is invoked.
InvokePrepare ==
    /\ Alive /\ NextPending("xcb_prepare_cb")
    /\ pending' = Front(pending)
    /\ pc' = "drain"
    /\ UNCHANGED <<envVars, gen, mainVars, connVars, sources, xcb_prepare, modal, phase,
                   nipc, owed, inherited, sigVars>>

\* xcb_got_event(): empty.
xcb_got_event ==
    /\ Alive /\ NextPending("xcb_got_event")
    /\ pending' = Front(pending)
    /\ UNCHANGED <<envVars, ctlVars, mainVars, connVars, sources, xcb_prepare, modal,
                   phase, nipc, owed, inherited, sigVars>>

\* ipc_new_client(): accept() on the listening socket; the new connection is
\* close-on-exec and becomes a client source.  A failed accept() is skipped.
ipc_new_client ==
    /\ Alive /\ NextPending("ipc_new_client")
    /\ pending' = Front(pending)
    /\ IF FreeFds(fdt) = {} \/ fdt[Last(pending).fd].kind # "listen"
       THEN UNCHANGED <<fdt, sources, loop_refs>>
       ELSE LET client == LowestFree(fdt)
            IN  /\ fdt' = [fdt EXCEPT ![client] = [kind |-> "client", cloexec |-> TRUE]]
                /\ sources' = sources \cup {Source(client, "ipc_client")}
                /\ loop_refs' = loop_refs + 1
    /\ UNCHANGED <<server, argv, environ, files, ctlVars, mainVars, connVars,
                   xcb_prepare, modal, phase, nipc, owed, inherited, sigdisp,
                   signal_watchers, sigpending, atexit_i3_exit, done>>

\* A client's command whose handler makes a round trip to the X server: the
\* reply is awaited and every event read on the way is left in xcb's queue.
IpcCommandSync ==
    /\ Alive /\ NextPending("ipc_client")
    /\ pending' = Front(pending)
    /\ queue' = queue \o ReadWhileWaiting(sock)
    /\ sock' = <<>>
    /\ UNCHANGED <<envVars, ctlVars, mainVars, handled, nsent, flushed, grabbed,
                   has_error, sources, xcb_prepare, modal, phase, nipc, owed, inherited,
                   sigVars>>

\* A client's command that starts the modal routine.
IpcCommandDrag ==
    /\ Alive /\ NextPending("ipc_client")
    /\ LET r == main_set_x11_cb(FALSE)
       IN  /\ xcb_prepare' = r.xcb_prepare
           /\ pending' = Front(r.pending)
           /\ loop_refs' = r.loop_refs
    /\ modal' = "ipc"
    /\ pc' = "modal"
    /\ UNCHANGED <<envVars, gen, mainVars, connVars, sources, phase, nipc, owed,
                   inherited, sigdisp, signal_watchers, sigpending, atexit_i3_exit,
                   done>>

\* All pending watchers were invoked: on to the blocking wait, or to the next
\* iteration.
PendingDone ==
    /\ Alive /\ pc = "invoke" /\ pending = <<>>
    /\ pc' = IF phase = "prepare" THEN "wait" ELSE "loop"
    /\ UNCHANGED <<envVars, gen, mainVars, connVars, loopVars, sigVars>>

RECURSIVE SeqByFd(_)
SeqByFd(S) ==
    IF S = {} THEN <<>>
    ELSE LET w == CHOOSE x \in S : \A y \in S : x.fd <= y.fd
         IN  <<w>> \o SeqByFd(S \ {w})

SignalWatchersOf(S) ==
    SelectSeq([i \in 1..Len(signal_watchers) |->
                  Watcher(-1, "handle_term_signal", signal_watchers[i])],
              LAMBDA w : w.sig \in S)

\* The X descriptor is readable when its socket buffer holds data, and for
\* good once the server has closed the stream.
XReadable == sock # <<>> \/ ~server.connect_ok

\* The blocking wait returns: the X descriptor is readable when its socket
\* buffer holds data, IPC sockets are readable when their peers make them so,
\* caught signals wake the loop.  The ready watchers become pending.
Wake(max) ==
    /\ Alive /\ pc = "wait"
    /\ \E ipc \in SUBSET {w \in sources : w.cb # "xcb_got_event" /\ IsOpen(fdt, w.fd)} :
          LET x == {w \in sources : w.cb = "xcb_got_event" /\ XReadable}
              ready == SeqByFd(x) \o SeqByFd(ipc) \o SignalWatchersOf(sigpending)
          IN  /\ ready # <<>>
              /\ nipc + Cardinality(ipc) <= max
              /\ nipc' = nipc + Cardinality(ipc)
              /\ pending' = ready
    /\ sigpending' = {}
    /\ phase' = "io"
    /\ pc' = "invoke"
    /\ UNCHANGED <<envVars, gen, mainVars, connVars, sources, xcb_prepare, modal, owed,
                   inherited, sigdisp, signal_watchers, loop_refs, atexit_i3_exit, done>>

\* ----------------------------------------------------------------- signals
\* handle_term_signal(): exit(128 + signum), from the loop.
handle_term_signal ==
    /\ Alive /\ NextPending("handle_term_signal")
    /\ Gone([how |-> "exit", sig |-> Last(pending).sig, status |-> "128+signum",
             cause |-> "handle_term_signal", cleanup |-> atexit_i3_exit, at |-> pc],
            IF atexit_i3_exit THEN i3_exit(files) ELSE files)

\* handle_core_signal(): shm_unlink() of the shm log when there is one, then
\* raise(sig); SA_RESETHAND has restored the default action, SA_NODEFER lets
\* the raised signal through at once.
\* The signal is raised again without the shm log being unlinked.
handle_core_signal_nounlink(sig) ==
    Gone([how |-> "core", sig |-> sig, status |-> NULL, cause |-> "handle_core_signal",
          cleanup |-> FALSE, at |-> pc],
         files)

handle_core_signal(sig) ==
    Gone([how |-> "core", sig |-> sig, status |-> NULL, cause |-> "handle_core_signal",
          cleanup |-> FALSE, at |-> pc],
         [files EXCEPT !.shmlog = IF environ.shm THEN FALSE ELSE @])

\* The handler setup_signal_handler() installs: it removes the shm log and
\* re-raises the signal with its default action.
sighandler(sig) ==
    Gone([how |-> "core", sig |-> sig, status |-> NULL, cause |-> "sighandler",
          cleanup |-> FALSE, at |-> pc],
         [files EXCEPT !.shmlog = IF environ.shm THEN FALSE ELSE @])

\* The default action of a signal: the process is terminated, with a core
\* dump for the "Core" signals; nothing of the program runs.
DefaultAction(sig) ==
    Gone([how |-> IF sig \in CoreSignals THEN "core" ELSE "killed", sig |-> sig,
          status |-> NULL, cause |-> "default", cleanup |-> FALSE, at |-> pc],
         files)

\* libev's own handler of a started ev_signal watcher: the signal is noted and
\* the loop woken; the watcher's callback runs from the loop.
ev_sighandler(sig) ==
    /\ sigpending = {}
    /\ sigpending' = {sig}
    /\ UNCHANGED <<envVars, ctlVars, mainVars, connVars, loopVars, sigdisp,
                   signal_watchers, loop_refs, atexit_i3_exit, done>>

\* A signal is delivered to the process, at any moment of its life.
DeliverSignal(sig) ==
    /\ Alive
    /\ CASE sigdisp[sig] = "ev_signal" -> ev_sighandler(sig)
         [] sigdisp[sig] = "handle_core_signal" -> handle_core_signal(sig)
         [] sigdisp[sig] = "sighandler" -> sighandler(sig)
         [] OTHER -> DefaultAction(sig)

\* ----------------------------------------------------------------- restart
\* The listening and client sockets the loop serves: the ChannelSet.
ChannelSet == {w \in sources : w.cb \in {"ipc_new_client", "ipc_client"}}

\* exec(): descriptors with close-on-exec set are closed.
CloseOnExec(t) == [fd \in Fds |-> IF t[fd].cloexec THEN Closed ELSE t[fd]]

\* A client's restart command: the layout is written to the snapshot path, the
\* client's descriptor is announced in _I3_RESTART_FD, close-on-exec is cleared
\* on every listening and client socket, and the process image is replaced:
\* same process, the surviving descriptors, the environment, the command line
\* with the snapshot path marked delete-after-use.
IpcCommandRestart(max) ==
    /\ Alive /\ NextPending("ipc_client")
    /\ gen < max
    /\ LET fd == Last(pending).fd
       IN  /\ environ' = [environ EXCEPT !.RESTART_FD = EnvNumber(0, fd)]
           /\ fdt' = CloseOnExec(DisableCloexecAll(fdt, {w.fd : w \in ChannelSet}))
           /\ inherited' = ChannelSet
    /\ files' = [files EXCEPT !.layout[RestartLayout] = "valid",
                              !.layoutdir[RestartLayout] = "empty"]
    /\ argv' = Append(argv, Opt("restart", RestartLayout))
    /\ gen' = gen + 1
    /\ pc' = "start"
    /\ FreshImage
    /\ sigdisp' = [s \in Signals |-> "default"]
    /\ UNCHANGED <<server, done>>

\* ----------------------------------------------------------- specification
\* main() from its first line to the call of ev_loop().
Bootstrap ==
    \/ ParseArgs
    \/ Connect
    \/ NegotiateVisual
    \/ LoadConfiguration
    \/ ClaimRoot
    \/ NegotiateExtensions
    \/ RestoreTree
    \/ CreateIpcSocket
    \/ SocketActivation
    \/ ServeRestartFd
    \/ ArmReactor
    \/ GrabServer
    \/ ReconcileDrain
    \/ SetupSignalHandler
    \/ setup_term_handlers
    \/ Autostart
    \/ RegisterAtexit

\* ev_loop() with the prepare watcher.
Loop ==
    \/ LoopIteration
    \/ InvokePrepare
    \/ xcb_prepare_cb
    \/ PendingDone

\* The process with X events, IPC clients and the modal routine; no signal is
\* delivered and no restart requested.
Next ==
    \/ Bootstrap
    \/ Loop
    \/ \E kind \in AllEventKinds : ServerSend(MaxEvents, kind)
    \/ xcb_got_event
    \/ Wake(MaxIpc)
    \/ ipc_new_client
    \/ IpcCommandSync
    \/ IpcCommandDrag
    \/ DragConsume
    \/ DragEnd

Init == InitWorld({ServerNominal}, {<<>>}, {EnvNominal}, {FilesNominal}, {FdtWith({})})

Spec == Init /\ [][Next]_vars

\* The process with signals delivered at any moment; no X event arrives and no
\* IPC client connects.
SignalWorldArgv == {<<>>, <<Opt("disable-signalhandler", NULL)>>}
SignalWorldEnv == {[EnvNominal EXCEPT !.shm = b] : b \in BOOLEAN}

InitSignals ==
    InitWorld({ServerNominal}, SignalWorldArgv, SignalWorldEnv, {FilesNominal}, {FdtWith({})})

NextSignals ==
    \/ Bootstrap
    \/ Loop
    \/ Wake(0)
    \/ handle_term_signal
    \/ \E sig \in Signals : DeliverSignal(sig)

SpecSignals == InitSignals /\ [][NextSignals]_vars

\* The process against every kind of X server; nothing else happens.
Servers ==
    {[ServerNominal EXCEPT !.connect_ok = k, !.other_wm = o, !.visual32 = v,
                           !.colormap_ok = c, !.xkb = x, !.shape = s] :
        k \in BOOLEAN, o \in BOOLEAN, v \in BOOLEAN, c \in BOOLEAN, x \in BOOLEAN,
        s \in ShapeAnswers}

InitNegotiation == InitWorld(Servers, {<<>>}, {EnvNominal}, {FilesNominal}, {FdtWith({})})

NextNegotiation ==
    \/ Bootstrap
    \/ Loop

SpecNegotiation == InitNegotiation /\ [][NextNegotiation]_vars

\* The process with IPC clients that may request an in-place restart, started
\* with and without socket-activation descriptors; no X event arrives.
InitRestart ==
    /\ \E n \in 0..MaxActivation :
          InitWorld({ServerNominal}, {<<>>}, {[EnvNominal EXCEPT !.LISTEN_FDS = n]},
                    {FilesNominal}, {FdtWith(ActivationFds(n))})

NextRestart ==
    \/ Bootstrap
    \/ Loop
    \/ Wake(MaxIpcRestart)
    \/ ipc_new_client
    \/ IpcCommandSync
    \/ IpcCommandRestart(MaxRestarts)

SpecRestart == InitRestart /\ [][NextRestart]_vars

\* The process started with or without a layout path, in every state of the
\* snapshot files; nothing else happens.
RestoreWorldArgv ==
    {<<>>, <<Opt("L", UserLayout)>>, <<Opt("restart", RestartLayout)>>,
     <<Opt("restart", RestartLayout), Opt("L", UserLayout)>>,
     <<Opt("L", UserLayout), Opt("restart", UserLayout)>>}
RestoreWorldFiles ==
    {[FilesNominal EXCEPT !.layout = l, !.layoutdir = [p \in Paths |-> d]] :
        l \in [Paths -> LayoutStates], d \in {"empty", "others"}}

InitRestore ==
    InitWorld({ServerNominal}, RestoreWorldArgv, {EnvNominal}, RestoreWorldFiles, {FdtWith({})})

NextRestore ==
    \/ Bootstrap
    \/ Loop

SpecRestore == InitRestore /\ [][NextRestore]_vars

\* The options of the model, one of each case of the switch; "h" has no case
\* and "word" is a non-option argument.
Options ==
    {Opt("a", NULL), Opt("C", NULL), Opt("v", NULL), Opt("m", NULL), Opt("h", NULL),
     Opt("disable-signalhandler", NULL), Opt("get-socketpath", NULL), Opt("word", NULL),
     Opt("L", UserLayout), Opt("L", RestartLayout),
     Opt("restart", UserLayout), Opt("restart", RestartLayout)}

\* Every command line of up to MaxArgs arguments.
CommandLines == UNION {[1..n -> Options] : n \in 0..MaxArgs}

\* The process started with any command line, the snapshots valid or not.
InitCommandLine ==
    InitWorld({ServerNominal}, CommandLines, {EnvNominal},
              {[FilesNominal EXCEPT !.layout = [p \in Paths |-> l]] :
                  l \in {"valid", "malformed"}},
              {FdtWith({})})

SpecCommandLine == InitCommandLine /\ [][NextRestore]_vars

\* The process started under a server with any set of windows under the root;
\* clients send events, MapRequests for these windows among them.
InitReconcile ==
    InitWorld({[ServerNominal EXCEPT !.windows = W] : W \in SUBSET Windows},
              {<<>>}, {EnvNominal}, {FilesNominal}, {FdtWith({})})

NextReconcile ==
    \/ Bootstrap
    \/ Loop
    \/ \E kind \in {XCB_MAP_REQUEST, XCB_UNMAP_NOTIFY, XCB_ERROR,
                      Generated(XCB_MAP_REQUEST), Generated(XCB_UNMAP_NOTIFY)} :
          ServerSend(MaxEvents, kind)
    \/ xcb_got_event
    \/ Wake(0)

SpecReconcile == InitReconcile /\ [][NextReconcile]_vars

\* The worlds of InitReconcile; clients send events, and at any moment of the
\* loop the server may close the connection.
NextConnection ==
    \/ Bootstrap
    \/ Loop
    \/ \E kind \in {XCB_MAP_REQUEST, XCB_ERROR} : ServerSend(MaxEvents, kind)
    \/ ConnectionFails
    \/ xcb_got_event
    \/ Wake(0)

SpecConnection == InitReconcile /\ [][NextConnection]_vars

\* The process started with every kind of _I3_RESTART_FD: absent, malformed,
\* "-1", "-2", a number beyond the int range whose low 32 bits are 5, or the
\* number of a client connection the image has inherited; with and without
\* socket activation.
ContinuationWorlds ==
    {[env |-> [EnvNominal EXCEPT !.RESTART_FD = v, !.LISTEN_FDS = n],
      fdt |-> FdtInheriting(ActivationFds(n),
                            IF v.text = "number" /\ v.lo \in Fds THEN {v.lo} ELSE {})] :
        v \in {EnvAbsent, EnvGarbage, EnvNumber(0, -1), EnvNumber(0, -2), EnvNumber(1, 5)}
               \cup {EnvNumber(0, fd) : fd \in {fd \in Fds : fd > SD_LISTEN_FDS_START}},
        n \in 0..MaxActivation}

InitContinuation ==
    \E w \in ContinuationWorlds :
        InitWorld({ServerNominal}, {<<>>}, {w.env}, {FilesNominal}, {w.fdt})

NextContinuation ==
    \/ Bootstrap
    \/ Loop

SpecContinuation == InitContinuation /\ [][NextContinuation]_vars

\* The worlds of the IPC socket: the configuration sets the path or not,
\* $I3SOCK is absent, empty or a path, any of the paths may be impossible to
\* bind; with every kind of _I3_RESTART_FD, with and without socket activation.
IpcWorlds ==
    {[env |-> [w.env EXCEPT !.I3SOCK = i3sock],
      files |-> [FilesNominal EXCEPT !.config_ipc_path = configured, !.bindable = B],
      fdt |-> w.fdt] :
        w \in ContinuationWorlds,
        i3sock \in {NULL, "", "env-path"},
        configured \in {NULL, "config-path"},
        B \in SUBSET (SocketPaths \ {""})}

InitIpc ==
    \E w \in IpcWorlds : InitWorld({ServerNominal}, {<<>>}, {w.env}, {w.files}, {w.fdt})

SpecIpc == InitIpc /\ [][NextContinuation]_vars

\* The worlds of socket activation: sd_listen_fds() fails (-1) or gives a
\* count; the descriptors are all there, or none is and the IPC socket cannot
\* be bound, so that the last announced descriptor is not open.
InitActivation ==
    \E n \in -1..MaxActivation, there \in BOOLEAN, v \in {EnvAbsent, EnvNumber(0, MaxFd)} :
        InitWorld({ServerNominal}, {<<>>},
                  {[EnvNominal EXCEPT !.LISTEN_FDS = n, !.RESTART_FD = v]},
                  {[FilesNominal EXCEPT !.bindable = IF there THEN @ ELSE {}]},
                  {FdtInheriting(IF there THEN ActivationFds(n) ELSE {},
                                 IF v = EnvAbsent THEN {} ELSE {MaxFd})})

SpecActivation == InitActivation /\ [][NextContinuation]_vars

\* The reactor with everything that can keep it busy: X events and errors
\* (at most MaxEvents: arrival pauses), the server closing the connection
\* during a drain pass, IPC clients with round trips and the modal routine,
\* and SIGTERM caught while the loop runs.
NextDrain ==
    \/ Bootstrap
    \/ Loop
    \/ \E kind \in {XCB_ERROR, XCB_BUTTON_PRESS} : ServerSend(MaxEvents, kind)
    \/ pc = "drain" /\ ConnectionFails
    \/ xcb_got_event
    \/ Wake(MaxIpc)
    \/ ipc_new_client
    \/ IpcCommandSync
    \/ IpcCommandDrag
    \/ DragConsume
    \/ DragEnd
    \/ handle_term_signal
    \/ pc \in {"loop", "invoke", "drain", "modal", "wait"} /\ DeliverSignal("SIGTERM")

\* What the scheduling of a single control flow guarantees: main() and
\* ev_loop() take their next step, a pending callback is invoked and returns,
\* the modal routine handle_event() or a command started returns, and the
\* blocking wait returns once the X descriptor is readable or a signal was
\* caught.  Nothing is assumed of the server, of the IPC peers or of signals.
Scheduling ==
    /\ WF_<<pc, pending, handled>>(Bootstrap)
    /\ WF_<<pc, pending, handled>>(Loop)
    /\ WF_<<pc, pending, handled>>(xcb_got_event \/ ipc_new_client \/ IpcCommandSync
                                      \/ IpcCommandDrag \/ handle_term_signal)
    /\ WF_<<pc, pending, handled>>(DragEnd)
    /\ WF_<<pc, pending, handled>>((sigpending # {} \/ XReadable) /\ Wake(MaxIpc))

SpecDrain == Init /\ [][NextDrain]_vars /\ Scheduling

\* -------------------------------------------------------------- properties

\* C1: whenever the loop is about to block with the drain source enabled,
\* xcb's internal queue is empty and every event the process has pulled from
\* the connection was consumed (dispatched, or logged when an error), whatever
\* the interleaving of arrivals, round trips and readiness notifications.
C1_DrainedBeforeWait ==
    (pc = "wait" /\ xcb_prepare = "active") =>
        /\ queue = <<>>
        /\ Len(handled) + Len(sock) = nsent
        /\ \A i \in 1..Len(handled) :
              handled[i].how \in {"handle_event", "logged", "dropped", "modal"}

\* C1 witness: the loop is about to block after xcb_prepare_cb dispatched an
\* event that a round trip had left in xcb's queue (no readiness was reported
\* for it) and logged an error event.
C1_Witness ==
    /\ pc = "wait" /\ xcb_prepare = "active" /\ phase = "prepare"
    /\ \E i, j \in 1..Len(handled) :
          /\ handled[i].how = "handle_event" /\ handled[i].buffered
          /\ handled[i].response_type = XCB_UNMAP_NOTIFY
          /\ handled[j].how = "logged"

\* C2: once main_set_x11_cb(true) has re-enabled the drain source, the events
\* left unconsumed while it was disabled are consumed by a drain pass that is
\* either running or the next pending callback: no other source's callback and
\* no blocking wait comes before it, and none of these events is lost.
C2_ForcedPassFirst ==
    (owed # {} /\ xcb_prepare = "active") =>
        /\ owed \subseteq Ids(queue \o sock)
        /\ \/ pc = "drain"
           \/ pc = "invoke" /\ pending # <<>> /\ Last(pending) = PrepareWatcher

\* C2 witness: the forced pass runs with events left over from the disabled
\* period while the callback of another ready source is still pending.
C2_Witness ==
    /\ pc = "drain" /\ owed # {} /\ xcb_prepare = "active"
    /\ pending # <<>> /\ phase = "io"

\* The steps of main() before the loop, in program order.
BootstrapSteps == <<"start", "connect", "visual", "config", "claim_root", "ext", "tree",
                    "ipc", "activation", "restart_fd", "arm", "grab", "recon_drain",
                    "signals", "term_handlers", "autostart", "atexit">>
StepsUpTo(step) ==
    {BootstrapSteps[i] : i \in {j \in 1..Len(BootstrapSteps) :
        \E k \in j..Len(BootstrapSteps) : BootstrapSteps[k] = step}}
\* The process is alive and has completed the given step of main().
Past(step) == Alive /\ pc \notin StepsUpTo(step)
\* The process died at a point where the given step had been completed.
DiedPast(step) == ~Alive /\ done.at \notin StepsUpTo(step)

\* C3: in the image that follows a restart, every client connection that was
\* open when the restart was requested is still open on its descriptor and is
\* registered as a client source once bootstrap has served the restart
\* descriptor.
C3_ClientsServedAfterRestart ==
    (gen >= 1 /\ Past("restart_fd")) =>
        \A w \in inherited :
            w.cb = "ipc_client" =>
                /\ IsOpen(fdt, w.fd) /\ fdt[w.fd].kind = "client"
                /\ Source(w.fd, "ipc_client") \in sources

\* C4: after the bootstrap of the image that follows a restart, no descriptor
\* of the ChannelSet of the replaced image has been closed without replacement
\* and none is open without being registered with the loop.
C4_NoChannelLeakedOrClosed ==
    (gen >= 1 /\ Past("atexit")) =>
        \A w \in inherited :
            /\ IsOpen(fdt, w.fd) \/ (w.cb = "ipc_new_client" /\ files.socket)
            /\ IsOpen(fdt, w.fd) => \E v \in sources : v.fd = w.fd

C6_TermSignalRunsCleanup ==
    (DiedPast("term_handlers") /\ done.sig \in TermSignals) =>
        /\ done.how = "exit" /\ done.cause = "handle_term_signal"
        /\ done.cleanup
        /\ ~files.shmlog /\ ~files.socket

\* C7 as written: whenever a core-class signal has ended the process, no shm
\* log is left behind.
C7_CoreSignalAlwaysRemovesLog ==
    (~Alive /\ done.sig \in CoreSignals) => ~files.shmlog

\* C7: a core-class signal delivered once main() has installed its handlers
\* for these signals ends the process by the signal's default action, raised
\* again by the handler after the shm log was removed; the process never
\* survives the signal and the handler has run once.
C7_CoreSignalRemovesLogThenReraises ==
    (DiedPast("signals") /\ done.sig \in CoreSignals) =>
        /\ done.how = "core"
        /\ done.cause = IF Opt("disable-signalhandler", NULL) \in Range(argv)
                        THEN "handle_core_signal" ELSE "sighandler"
        /\ ~files.shmlog

\* C7 witness: handle_core_signal() ran while the loop was blocked, with a shm
\* log in place, and the process died of the signal with the log removed.
C7_Witness ==
    /\ ~Alive /\ done.cause = "handle_core_signal" /\ done.how = "core"
    /\ done.sig = "SIGSEGV" /\ done.at = "wait"
    /\ environ.shm /\ ~files.shmlog

\* C8: after setup_term_handlers() each of SIGHUP, SIGINT, SIGALRM, SIGTERM,
\* SIGUSR1 and SIGUSR2 is bound to exactly one loop-integrated watcher and none
\* is left with its default disposition.
C8_OneBindingPerTermSignal ==
    Past("term_handlers") =>
        \A sig \in TermSignals :
            /\ Cardinality({i \in 1..Len(signal_watchers) : signal_watchers[i] = sig}) = 1
            /\ sigdisp[sig] = "ev_signal"

\* C9: colour negotiation never ends the process; past it the 32-bit visual
\* and its new colormap are in use when both are available, and the server's
\* default depth, visual and colormap in every other case.
C9_ColourNeverFailsBootstrap ==
    /\ Alive \/ done.at # "visual"
    /\ Past("visual") =>
          IF server.visual32 /\ server.colormap_ok
          THEN caps.root_depth = 32 /\ caps.visual_type = "argb32"
               /\ caps.colormap = "created"
          ELSE caps.root_depth = 24 /\ caps.visual_type = "root"
               /\ caps.colormap = "default"

\* C10: extension negotiation never ends the process, and from its completion
\* on xkb_supported is the presence of XKB and shape_supported is the presence
\* of SHAPE with a version reply of minor version 1 or more: the flags keep
\* these values for the rest of the process's life.
C10_ExtensionsOnlyDowngrade ==
    /\ Alive \/ done.at # "ext"
    /\ Past("ext") =>
          /\ caps.xkb_supported = server.xkb
          /\ caps.shape_supported =
                 (server.shape.present /\ server.shape.reply /\ server.shape.minor >= 1)

\* C10 witness: the loop runs on a server without XKB whose SHAPE answers
\* with version 1.0, both flags down.
C10_Witness ==
    /\ pc = "wait" /\ ~server.xkb
    /\ server.shape.present /\ server.shape.reply /\ server.shape.minor = 0
    /\ ~caps.xkb_supported /\ ~caps.shape_supported

\* The tree operation named was called by this image.
Called(op) == \E i \in 1..Len(tree) : tree[i].op = op
Calls(op) == Cardinality({i \in 1..Len(tree) : tree[i].op = op})

\* C11: a snapshot that is absent or malformed does not stop bootstrap: past
\* the tree step tree_init() has run exactly when no path was given or
\* tree_restore() failed, so exactly one of a successful tree_restore() and
\* tree_init() supplied the tree, and the step never ends the process.
C11_FreshTreeIffNotRestored ==
    /\ Alive \/ done.at # "tree"
    /\ Past("tree") =>
          /\ Calls("tree_init") + Calls("tree_restore_ok") = 1
          /\ Called("tree_init") <=>
                 (opts.layout_path = NULL \/ Called("tree_restore_failed"))
          /\ Called("tree_restore_ok") \/ Called("tree_restore_failed") <=>
                 opts.layout_path # NULL

\* C11 witness: the loop blocks in an image whose malformed snapshot could not
\* be restored and whose tree was built afresh.
C11_Witness ==
    /\ pc = "wait" /\ opts.layout_path = UserLayout
    /\ files.layout[UserLayout] = "malformed"
    /\ Called("tree_restore_failed") /\ Called("tree_init")

\* C12: in the tree step tree_restore() is called before tree_init() when a
\* path is present, and the snapshot is unlinked, and its directory removed
\* when that is possible, exactly when the path is marked delete-after-use,
\* whatever tree_restore() answered; otherwise no file changes.
C12_SnapshotDeletedIffMarked ==
    [][(Alive /\ pc = "tree") =>
          LET p == opts.layout_path
          IN  /\ p # NULL => tree'[1].op \in {"tree_restore_ok", "tree_restore_failed"}
              /\ IF p # NULL /\ opts.delete_layout_path
                 THEN /\ files'.layout = [files.layout EXCEPT ![p] = "none"]
                      /\ files'.layoutdir[p] = IF files.layoutdir[p] = "empty"
                                               THEN "removed" ELSE files.layoutdir[p]
                      /\ \E i \in 1..Len(tree') - 1 :
                            tree'[i] = Op("unlink") /\ tree'[i + 1] = Op("rmdir")
                 ELSE files' = files /\ ~\E i \in 1..Len(tree') : tree'[i].op = "unlink"]_vars

\* C12 witness: a marked snapshot that could not be restored has been removed
\* with its directory, and an image given an unmarked valid snapshot kept it.
C12_Witness ==
    /\ Past("tree") /\ opts.layout_path # NULL /\ opts.delete_layout_path
    /\ tree = <<Op("tree_restore_failed"), Op("unlink"), Op("rmdir"), Op("tree_init")>>
    /\ files.layout[opts.layout_path] = "none"
    /\ files.layoutdir[opts.layout_path] = "removed"

\* The containers the tree holds for a window.
Managed(window) ==
    Cardinality({i \in 1..Len(tree) : tree[i] = TreeOp("manage_window", window)})

C14_RestartConfirmedOnce ==
    /\ restart_confirms <= 1
    /\ Past("restart_fd") =>
          /\ (environ.RESTART_FD.text = "number" /\ environ.RESTART_FD.lo \in Fds) =>
                /\ Source(environ.RESTART_FD.lo, "ipc_client") \in sources
                /\ restart_confirms = 1
          /\ environ.RESTART_FD.text = "absent" => restart_confirms = 0
    /\ (Alive /\ ~Past("restart_fd")) => restart_confirms = 0

\* C14 witness: bootstrap has just served the inherited descriptor 5, before
\* the loop is armed.
C14_Witness ==
    /\ pc = "arm" /\ environ.RESTART_FD = EnvNumber(0, 5)
    /\ IsOpen(fdt, 5) /\ Source(5, "ipc_client") \in sources
    /\ restart_confirms = 1

\* C15: with _I3_RESTART_FD absent or not a number the step does not end the
\* process, no client source is registered and no restart is confirmed.
C15_BadRestartFdIgnored ==
    environ.RESTART_FD.text \in {"absent", "garbage"} =>
        /\ Alive \/ done.at # "restart_fd"
        /\ restart_confirms = 0
        /\ ~\E w \in sources : w.cb = "ipc_client"

\* C15 witness: the loop blocks in an image whose _I3_RESTART_FD was
\* malformed.
C15_Witness ==
    /\ pc = "wait" /\ environ.RESTART_FD = EnvGarbage
    /\ restart_confirms = 0 /\ sources # {}

\* The lifecycle phases in order, and the phase of each position of main():
\* connecting, negotiating from the visual to the extensions, the tree with
\* the channels that are set up after it, reconciliation with the rest of
\* bootstrap, the loop, the end of the process.
Phases == <<"Bootstrapping", "Negotiating", "RestoringOrBuildingTree",
            "ReconcilingExistingWindows", "Running", "ShuttingDown">>
Phase(p) ==
    IF p \in {"start", "connect"} THEN 1
    ELSE IF p \in {"visual", "config", "claim_root", "ext"} THEN 2
    ELSE IF p \in {"tree", "ipc", "activation", "restart_fd", "arm"} THEN 3
    ELSE IF p \in {"grab", "recon_drain", "signals", "term_handlers", "autostart",
                   "atexit"} THEN 4
    ELSE IF p = "exited" THEN 6
    ELSE 5
HasTree == Called("tree_init") \/ Called("tree_restore_ok")

\* C16: within an image the phase never moves back; a step back to
\* Bootstrapping is a restart, which starts a fresh image; the capability
\* flags and the visual are settled before a tree exists, and a tree exists,
\* from one source only, when reconciliation starts and ever after.
C16_PhasesOnlyForward ==
    /\ [][/\ gen' = gen => Phase(pc') >= Phase(pc)
          /\ gen' # gen => /\ gen' = gen + 1 /\ Phase(pc) = 5
                           /\ pc' = "start" /\ tree' = <<>> /\ sources' = {}
                           /\ caps' = InitCaps]_vars
    /\ [](/\ Phase(pc) \in 1..2 => tree = <<>>
          /\ HasTree => caps.visual_type # NULL
          /\ Phase(pc) \in 4..5 =>
                 /\ Calls("tree_init") + Calls("tree_restore_ok") = 1
                 /\ caps.visual_type # NULL
          /\ Phase(pc) \in 1..3 => ~grabbed /\ ~Called("manage_window"))

\* C16 witness: the image that followed a restart runs its loop on the tree
\* it restored.
C16_Witness ==
    /\ gen = 1 /\ pc = "wait" /\ Called("tree_restore_ok") /\ ~Called("tree_init")

\* C17: when the display cannot be connected to, or another window manager
\* holds the root window, the process does not get past that step and ends
\* with a non-zero status; no IPC socket exists, no event source was
\* registered, the loop was not entered and i3_exit() did not run.
C17_FatalBootstrapExitsAtOnce ==
    (~server.connect_ok \/ server.other_wm) =>
        /\ Alive => pc \in StepsUpTo("claim_root")
        /\ ~Alive => /\ done.how = "exit" /\ done.status = "1"
                     /\ ~done.cleanup
                     /\ done.at \in StepsUpTo("claim_root")
        /\ ~files.socket /\ sources = {} /\ xcb_prepare = "unset"
        /\ ~atexit_i3_exit

\* C17 witness: the process connected, found another window manager on the
\* root window and has exited with status 1.
C17_Witness ==
    /\ ~Alive /\ server.connect_ok /\ server.other_wm
    /\ done.cause = "other-wm" /\ done.at = "claim_root" /\ done.status = "1"

\* C18: a display connection that has failed while the loop runs is fatal: the
\* process never goes back to the blocking wait, nor into another iteration,
\* on a connection it has found in the error state.
C18_FailedConnectionIsFatal ==
    (Alive /\ has_error) => pc \notin {"wait", "loop"}

\* C19: once the configuration is loaded the socket path is the configured
\* one if there is one, whatever $I3SOCK holds; else the value of $I3SOCK if
\* the variable is set; and the name made from the process id only when both
\* are absent.  The path never changes afterwards.
C19_SocketPathPriority ==
    /\ Past("config") =>
          /\ files.config_ipc_path # NULL => ipc_socket_path = files.config_ipc_path
          /\ (files.config_ipc_path = NULL /\ environ.I3SOCK # NULL) =>
                ipc_socket_path = environ.I3SOCK
          /\ ipc_socket_path = "pid-default" <=>
                (files.config_ipc_path = NULL /\ environ.I3SOCK = NULL)
    /\ (Alive /\ ~Past("config")) => ipc_socket_path = NULL

\* C19 witness: the configuration sets a path and $I3SOCK holds another one;
\* the socket was created on the configured path.
C19_Witness ==
    /\ Past("ipc") /\ files.config_ipc_path = "config-path"
    /\ environ.I3SOCK = "env-path"
    /\ ipc_socket_path = "config-path" /\ files.socket

\* The creation of the IPC socket has failed in this image.
IpcCreationFailed == Past("ipc") /\ "IPC disabled" \in files.elog

\* C20: a path that cannot be bound makes the creation fail, and the failure
\* is logged; after a failed creation there is no socket, no listening source
\* other than the socket-activation ones, and the process is not ended by it:
\* every later bootstrap step is enabled in turn, the activation descriptors
\* become listening sources and the restart descriptor is served.
C20_IpcFailureNotFatal ==
    /\ (Past("ipc") /\ ipc_socket_path \notin files.bindable) => IpcCreationFailed
    /\ ("IPC disabled" \in files.elog) =>
          /\ Alive
          /\ ~files.socket
          /\ \A w \in sources :
                w.cb = "ipc_new_client" => w.fd \in ActivationFds(listen_fds)
          /\ \A fd \in Fds :
                fdt[fd].kind = "listen" => fd \in ActivationFds(environ.LISTEN_FDS)
          /\ pc \in Range(BootstrapSteps) => ENABLED Bootstrap
          /\ Past("activation") =>
                /\ listen_fds = environ.LISTEN_FDS
                /\ \A fd \in ActivationFds(environ.LISTEN_FDS) :
                      Source(fd, "ipc_new_client") \in sources
          /\ (Past("restart_fd") /\ parse_restart_fd(environ.RESTART_FD) # -1) =>
                /\ Source(parse_restart_fd(environ.RESTART_FD), "ipc_client") \in sources
                /\ restart_confirms = 1

\* C20 witness: the loop blocks in a process whose IPC socket could not be
\* created; the activation descriptor and the restart descriptor are sources.
C20_Witness ==
    /\ pc = "wait" /\ IpcCreationFailed
    /\ environ.LISTEN_FDS = 1 /\ environ.RESTART_FD = EnvNumber(0, 5)
    /\ sources = {Source(SD_LISTEN_FDS_START, "ipc_new_client"), Source(5, "ipc_client"),
                  Source(XFd(fdt), "xcb_got_event")}

\* The command line holds the option, or for "word" a non-option argument.
HasOpt(o) == \E i \in 1..Len(argv) : argv[i].o = o

\* C21: a command line with -v, -m, --get-socketpath, -C or a non-option
\* argument never takes the process past the option handling: the process
\* exits there, without the exit hook, and at no time is there an X
\* connection, a claimed root, an event source, a listening socket or a
\* changed signal disposition.
C21_OneShotNeverEntersReactor ==
    (\E o \in {"v", "m", "get-socketpath", "C", "word"} : HasOpt(o)) =>
        /\ Alive => pc = "start"
        /\ ~Alive => /\ done.how = "exit" /\ done.at = "start" /\ ~done.cleanup
                     /\ done.cause \in {"version", "moreversion", "get-socketpath",
                                        "check-config", "send-command", "usage"}
        /\ sources = {} /\ xcb_prepare = "unset" /\ signal_watchers = <<>>
        /\ \A s \in Signals : sigdisp[s] = "default"
        /\ ~files.socket /\ tree = <<>> /\ ~grabbed /\ ~atexit_i3_exit
        /\ \A fd \in Fds : fdt[fd].kind \notin {"x11", "listen"}

\* C21 witness: "i3 -C --disable-signalhandler" has checked the configuration
\* and exited.
C21_Witness ==
    /\ argv = <<Opt("C", NULL), Opt("disable-signalhandler", NULL)>>
    /\ ~Alive /\ done.cause = "check-config" /\ done.at = "start"

\* C22: the grab is taken only at the start of reconciliation, with a tree
\* in place and no application started, and the same step makes the round
\* trip that empties the socket; it is held while events are drained; it is
\* released only by the step that finds the queue empty, which first manages
\* every window under the root; it is never held afterwards, and applications
\* are started only after it was released.
C22_ReconciliationInOrder ==
    /\ [][/\ (~grabbed /\ grabbed') =>
                /\ pc = "grab" /\ pc' = "recon_drain"
                /\ HasTree /\ started = <<>>
                /\ sock' = <<>> /\ queue' = queue \o ReadWhileWaiting(sock)
          /\ (grabbed /\ grabbed' /\ handled' # handled) =>
                /\ pc = "recon_drain" /\ pc' = "recon_drain"
                /\ queue \o sock # <<>> /\ Len(handled') = Len(handled) + 1
          /\ (grabbed /\ ~grabbed' /\ done' = done) =>
                /\ pc = "recon_drain" /\ pc' = "signals"
                /\ queue \o sock = <<>> /\ handled' = handled
                /\ \A window \in server.windows :
                      TreeOp("manage_window", window) \in Range(tree')
          /\ started' # started => (started' = <<>> \/ (~grabbed /\ Past("recon_drain")))
         ]_vars
    /\ [](/\ (Alive /\ pc = "recon_drain") => (grabbed /\ HasTree /\ started = <<>>)
          /\ (Alive /\ pc # "recon_drain") => ~grabbed
          /\ started # <<>> => Past("autostart"))

\* C22 witness: reconciliation is over in a process that drained an event
\* under the grab, managed two windows and has started its applications.
C22_Witness ==
    /\ pc = "atexit" /\ ~grabbed /\ started = <<"exec", "exec_always", "bar">>
    /\ server.windows = {1, 2} /\ Managed(1) = 1 /\ Managed(2) = 1
    /\ \E i \in 1..Len(handled) : handled[i].how = "dropped"

\* C23: a step of the drain under the grab that consumes an event calls
\* handle_event() exactly when the event is a MapRequest, generated or not,
\* and then manages its window; any other event, an error included, is
\* dropped and changes nothing; the step that enumerates the windows is taken
\* with nothing left in xcb's queue or in the socket.
C23_OnlyMapRequestsSurviveDrain ==
    [][(Alive /\ pc = "recon_drain") =>
          IF handled' # handled
          THEN LET e == handled'[Len(handled')]
               IN  /\ handled' = Append(handled, e)
                   /\ e.id = Head(queue \o sock).id
                   /\ e.how \in {"handle_event", "dropped"}
                   /\ e.how = "handle_event" <=>
                         e.response_type \in {XCB_MAP_REQUEST, Generated(XCB_MAP_REQUEST)}
                   /\ tree' = IF e.how = "handle_event"
                              THEN manage_window(tree, e.window) ELSE tree
                   /\ pc' = "recon_drain"
          ELSE /\ queue \o sock = <<>> /\ queue' \o sock' = <<>>
               /\ pc' = "signals"]_vars

\* C23 witness: the drain has dropped a stale UnmapNotify and handled a
\* generated MapRequest, and reconciliation is over.
C23_Witness ==
    /\ pc = "signals" /\ Len(handled) = 2
    /\ handled[1].response_type = XCB_UNMAP_NOTIFY /\ handled[1].how = "dropped"
    /\ handled[2].response_type = Generated(XCB_MAP_REQUEST)
    /\ handled[2].how = "handle_event"
    /\ Managed(handled[2].window) = 1

\* C24: a step of xcb_prepare_cb() that takes an error event only logs it:
\* handle_event() is not called, the tree, the modal routine and the drain
\* source are untouched, the process lives, and the loop polls for the next
\* event; no event that went to handle_event() is an error.
C24_ErrorsOnlyLogged ==
    /\ [][(Alive /\ pc = "drain" /\ handled' # handled
             /\ handled'[Len(handled')].response_type = XCB_ERROR) =>
              /\ handled' = Append(handled, Handled(Head(queue \o sock), "logged"))
              /\ queue' \o sock' = Tail(queue \o sock)
              /\ done' = done /\ pc' = "drain"
              /\ tree' = tree /\ modal' = modal /\ xcb_prepare' = xcb_prepare
              /\ sources' = sources /\ pending' = pending]_vars
    /\ [](\A i \in 1..Len(handled) :
             handled[i].how = "handle_event" => handled[i].response_type # XCB_ERROR)

\* C24 witness: one invocation of xcb_prepare_cb() has logged an error and
\* then handled the MapRequest queued behind it.
C24_Witness ==
    /\ pc = "drain" /\ Len(handled) = 2 /\ queue \o sock = <<>>
    /\ handled[1].response_type = XCB_ERROR /\ handled[1].how = "logged"
    /\ handled[2].response_type = XCB_MAP_REQUEST /\ handled[2].how = "handle_event"
    /\ Managed(handled[2].window) = 1

\* C25: events are consumed one per step, always the oldest one not yet
\* consumed, so in the order the server sent them and none twice; when the
\* loop is about to block with the drain source enabled, every event that had
\* been read from the socket was consumed and the outgoing queue is flushed.
C25_DispatchInArrivalOrder ==
    /\ [][handled' # handled =>
              \/ handled' = <<>>
              \/ /\ queue \o sock # <<>>
                 /\ Len(handled') = Len(handled) + 1
                 /\ \A i \in 1..Len(handled) : handled'[i] = handled[i]
                 /\ handled'[Len(handled')].id = Head(queue \o sock).id
                 /\ queue' \o sock' = Tail(queue \o sock)]_vars
    /\ [](/\ \A i, j \in 1..Len(handled) : i < j => handled[i].id < handled[j].id
          /\ \A i \in 1..Len(queue \o sock) :
                /\ \A j \in 1..Len(handled) : handled[j].id < (queue \o sock)[i].id
                /\ \A j \in 1..Len(queue \o sock) :
                      i < j => (queue \o sock)[i].id < (queue \o sock)[j].id
          /\ (pc = "wait" /\ xcb_prepare = "active") => (queue = <<>> /\ flushed))

\* C25 witness: one invocation of xcb_prepare_cb() has dispatched two queued
\* events in the order they were sent, has flushed, and the loop is about to
\* block.
C25_Witness ==
    /\ pc = "wait" /\ phase = "prepare" /\ flushed /\ queue \o sock = <<>>
    /\ Len(handled) = 2
    /\ handled[1].id = 1 /\ handled[1].how = "handle_event"
    /\ handled[2].id = 2 /\ handled[2].how = "handle_event"
    /\ handled[1].response_type = XCB_UNMAP_NOTIFY
    /\ handled[2].response_type = XCB_MAP_REQUEST

\* The pending callbacks of the sources other than the drain source.
OtherPending(p) == SelectSeq(p, LAMBDA w : w # PrepareWatcher)

\* C26: a step that disables or re-enables the drain source leaves the io
\* sources, their descriptors, the signal watchers and the signal
\* dispositions as they were, and keeps the pending callbacks of the other
\* sources (but for the one being run); while the drain source is disabled
\* only the modal routine consumes events and the drain callback is neither
\* pending nor running.
C26_ToggleOnlyDrainSource ==
    /\ [][/\ (xcb_prepare # "unset" /\ xcb_prepare' # "unset"
               /\ xcb_prepare' # xcb_prepare) =>
                /\ sources' = sources /\ fdt' = fdt
                /\ signal_watchers' = signal_watchers /\ sigdisp' = sigdisp
                /\ xcb_prepare' = "stopped" =>
                      /\ loop_refs' = loop_refs - 1
                      /\ OtherPending(pending') \in
                            {OtherPending(pending), OtherPending(Front(pending))}
                /\ xcb_prepare' = "active" =>
                      /\ loop_refs' = loop_refs + 1
                      /\ OtherPending(pending') = OtherPending(pending)
          /\ (xcb_prepare = "stopped" /\ handled' # handled) =>
                /\ handled' # <<>>
                /\ handled'[Len(handled')].how = "modal"
         ]_vars
    /\ [](xcb_prepare = "stopped" =>
             /\ pc = "modal"
             /\ PrepareWatcher \notin Range(pending))

\* C26 witness: after a disable/enable pair during which the modal routine
\* consumed an event, the callback of the X descriptor's source is still
\* pending behind the drain callback and both io sources are registered.
C26_Witness ==
    /\ pc = "invoke" /\ xcb_prepare = "active"
    /\ \E i \in 1..Len(handled) : handled[i].how = "modal"
    /\ Len(pending) = 2 /\ pending[2] = PrepareWatcher
    /\ pending[1].cb = "xcb_got_event"
    /\ \E w \in sources : w.cb = "ipc_new_client"

\* C27: setup_term_handlers() starts its six watchers and leaves the loop's
\* count as it found it; at all times the count is the number of started io
\* sources plus the enabled drain source, so the signal watchers hold none of
\* the references.
C27_TermHandlersHoldNoReference ==
    /\ [][(Alive /\ pc = "term_handlers" /\ pc' = "autostart") =>
              /\ loop_refs' = loop_refs
              /\ Len(signal_watchers') = 6 /\ signal_watchers = <<>>]_vars
    /\ [](Alive => loop_refs = Cardinality(sources)
                               + (IF xcb_prepare = "active" THEN 1 ELSE 0))

\* C27 witness: the loop runs with the six signal watchers started and a count
\* of three: the X descriptor, the IPC socket and the drain source.
C27_Witness ==
    /\ pc = "wait" /\ Len(signal_watchers) = 6
    /\ Cardinality(sources) = 2 /\ xcb_prepare = "active" /\ loop_refs = 3

\* The started sources that listen for IPC clients.
ListeningSources == {w \in sources : w.cb = "ipc_new_client"}

\* C28: past the socket-activation step the count is the one sd_listen_fds()
\* gave; for a count n > 0 the listening sources are those of descriptors
\* SD_LISTEN_FDS_START .. SD_LISTEN_FDS_START + n - 1 and that of the
\* locally created socket if there is one, close-on-exec is cleared on every
\* one of them that is open, and a descriptor that is not open is registered
\* all the same, with the failure logged; for n <= 0 only the local socket
\* listens, and a negative n is logged.  The step never ends the process.
C28_ActivationSourcesExactlyN ==
    /\ Alive \/ done.at # "activation"
    /\ Past("activation") =>
          LET n == environ.LISTEN_FDS
              announced == SD_LISTEN_FDS_START..(SD_LISTEN_FDS_START + n - 1)
          IN  /\ listen_fds = n
              /\ \A fd \in announced :
                    /\ Source(fd, "ipc_new_client") \in sources
                    /\ IsOpen(fdt, fd) => ~fdt[fd].cloexec
                    /\ ~IsOpen(fdt, fd) => "Could not disable FD_CLOEXEC" \in files.elog
              /\ Cardinality(ListeningSources) =
                    Cardinality(announced) + (IF files.socket THEN 1 ELSE 0)
              /\ n < 0 => "Error in sd_listen_fds" \in files.elog
              /\ n <= 0 => \A w \in ListeningSources : files.socket

\* C28 witness: two descriptors were announced, close-on-exec could not be
\* cleared on the second, which is not open; both are listening sources and
\* the loop is about to block.
C28_Witness ==
    /\ pc = "wait" /\ listen_fds = 2
    /\ ~IsOpen(fdt, SD_LISTEN_FDS_START + 1)
    /\ "Could not disable FD_CLOEXEC" \in files.elog
    /\ ListeningSources = {Source(SD_LISTEN_FDS_START, "ipc_new_client"),
                           Source(SD_LISTEN_FDS_START + 1, "ipc_new_client")}

\* The positions of the layout-selecting options on the command line.
LayoutOptions == {i \in 1..Len(argv) : argv[i].o \in {"L", "restart"}}

\* C29: in an image that got past the option handling, the layout path is
\* the argument of the last -L or --restart on the command line (none when
\* there is no such option) and it is marked delete-after-use exactly when
\* that last option is --restart; the image makes one restoration attempt
\* when there is a path and none otherwise, and removes at most one snapshot,
\* the one of that path and only when it is marked.
C29_LastLayoutOptionWins ==
    Past("start") =>
        /\ IF LayoutOptions = {}
           THEN opts.layout_path = NULL /\ ~opts.delete_layout_path
           ELSE LET last == CHOOSE i \in LayoutOptions : \A j \in LayoutOptions : j <= i
                IN  /\ opts.layout_path = argv[last].a
                    /\ opts.delete_layout_path <=> argv[last].o = "restart"
        /\ Calls("tree_restore_ok") + Calls("tree_restore_failed") =
              (IF Past("tree") /\ opts.layout_path # NULL THEN 1 ELSE 0)
        /\ Calls("unlink") =
              (IF Past("tree") /\ opts.layout_path # NULL /\ opts.delete_layout_path
               THEN 1 ELSE 0)
        /\ \A p \in Paths :
              files.layout[p] = "none" <=>
                  (Past("tree") /\ p = opts.layout_path /\ opts.delete_layout_path)

\* C29 witness: "i3 --restart restart.json -L user.json" has restored the
\* user's snapshot and kept both files.
C29_Witness ==
    /\ argv = <<Opt("restart", RestartLayout), Opt("L", UserLayout)>>
    /\ pc = "wait" /\ opts.layout_path = UserLayout /\ ~opts.delete_layout_path
    /\ Calls("tree_restore_ok") = 1 /\ Calls("unlink") = 0
    /\ files.layout[UserLayout] = "valid" /\ files.layout[RestartLayout] = "valid"

\* C30: when _I3_RESTART_FD holds a number that is negative or does not fit
\* an int, no restart is confirmed and no client source is registered; a
\* client source never has a negative descriptor.
C30_RestartFdInRange ==
    /\ (environ.RESTART_FD.text = "number"
          /\ (environ.RESTART_FD.hi # 0 \/ environ.RESTART_FD.lo < 0)) =>
            /\ restart_confirms = 0
            /\ ~\E w \in sources : w.cb = "ipc_client"
    /\ \A w \in sources : w.cb = "ipc_client" => w.fd >= 0

\* C31: while the process lives, a drain pass that was started ends and the
\* loop reaches its blocking wait; the callbacks of the other sources that
\* are pending get invoked, and a caught SIGTERM gets its watcher's callback;
\* the pass returns to the loop only from a poll that found nothing queued,
\* and it has flushed the output then unless the connection has failed.
C31_DrainTerminates ==
    /\ (pc = "drain") ~> (pc = "wait" \/ ~Alive)
    /\ (OtherPending(pending) # <<>>) ~> (OtherPending(pending) = <<>>)
    /\ (sigpending # {}) ~> (done.cause = "handle_term_signal")
    /\ [][(pc = "drain" /\ pc' = "invoke") =>
             /\ queue \o sock = <<>>
             /\ flushed' \/ has_error']_vars

\* C31 witness: every event the server will send has arrived, an error and a
\* ButtonPress among them; the drain dispatched or logged them all, the
\* output is flushed, and the loop is at its blocking wait after an IPC
\* source was served.
C31_Witness ==
    /\ pc = "wait" /\ phase = "prepare" /\ flushed
    /\ nsent = MaxEvents /\ queue \o sock = <<>> /\ Len(handled) = MaxEvents
    /\ \E i, j \in 1..Len(handled) :
          /\ handled[i].how = "logged"
          /\ handled[j].how = "handle_event"
    /\ nipc > 0

====
